---- MODULE Spec2Model ----
(***************************************************************************)
(* Model of xsparseset: SparseSet<E, T, S> (src/src/lib.rs), a sparse set  *)
(* made of an index storage `sparse` and two parallel dense vectors        *)
(* `dense` (ids) and `data` (values).                                      *)
(*                                                                         *)
(* Conventions                                                             *)
(*   - Option<X> is a sequence of length <= 1: None == << >>,              *)
(*     Some(x) == << x >>.                                                 *)
(*   - Rust vectors are 0-based, TLA+ sequences 1-based: the element at    *)
(*     dense position k is seq[k + 1].                                     *)
(*   - An operation yields an outcome [s, ret, status]: the set after the  *)
(*     call, the returned value and "ok", "panic" (the call panicked) or   *)
(*     "ub" (an unchecked access went out of range: undefined behaviour,   *)
(*     after which nothing is known about the set).                        *)
(***************************************************************************)
EXTENDS Integers, Sequences, FiniteSets, TLC

\* ---------------------------------------------------------------- bounds
NumIds == 3
NumValues == 2
MaxBatch == 2

Ids == 1..NumIds
Values == 1..NumValues

\* the ids of the scenario of the specification, section 8
ScenarioIds == 1..5

\* every id a storage can be asked about
IdSpace == Ids \cup ScenarioIds

\* indices handed to the by-index operations: every valid one and one past
MaxIndex == NumIds

\* ---------------------------------------------------------------- options
None == << >>
Some(x) == << x >>
is_some(o) == Len(o) = 1
is_none(o) == Len(o) = 0
unwrap(o) == o[1]

\* ------------------------------------------- index storage (SparseStorage)
\* The storage keeps one slot index per id, 0 meaning "not present".
storage_default == [id \in IdSpace |-> 0]

storage_get_index(sp, id) == IF sp[id] = 0 THEN None ELSE Some(sp[id])

\* `index` is an Option<NonZeroUsize>
storage_set_index(sp, id, index) ==
    [sp EXCEPT ![id] = IF is_some(index) THEN unwrap(index) ELSE 0]

RECURSIVE storage_set_indices(_, _, _)
storage_set_indices(sp, ids, start_index) ==
    IF ids = << >> THEN sp
    ELSE storage_set_indices(storage_set_index(sp, Head(ids), Some(start_index)),
                             Tail(ids), start_index + 1)

storage_swap(sp, id_a, id_b) == [sp EXCEPT ![id_a] = sp[id_b], ![id_b] = sp[id_a]]

storage_clear(sp) == [id \in IdSpace |-> 0]

\* ---------------------------------------------------------------- vectors
vec_get(v, index) == IF index < Len(v) THEN Some(v[index + 1]) ELSE None

vec_swap(v, a, b) == [v EXCEPT ![a + 1] = v[b + 1], ![b + 1] = v[a + 1]]

vec_pop(v) == IF v = << >> THEN v ELSE SubSeq(v, 1, Len(v) - 1)

vec_last(v) == IF v = << >> THEN None ELSE Some(v[Len(v)])

\* --------------------------------------------------------------- SparseSet
SparseSet(sp, de, da) == [sparse |-> sp, dense |-> de, data |-> da]

Out(s, r, st) == [s |-> s, ret |-> r, status |-> st]

\* the outcome of insert_batch, which also leaves the caller's two vectors
\* `ids` and `data` (&mut Vec) as the call made them
OutBatch(s, st, ids, data) ==
    [s |-> s, ret |-> None, status |-> st, ids |-> ids, data |-> data]

default == SparseSet(storage_default, << >>, << >>)

len(s) == Len(s.dense)

is_empty(s) == s.dense = << >>

contains(s, id) == is_some(storage_get_index(s.sparse, id))

get_index(s, id) ==
    LET x == storage_get_index(s.sparse, id)
    IN  IF is_some(x) THEN Some(unwrap(x) - 1) ELSE None

get_id(s, index) == vec_get(s.dense, index)

\* what an out-of-range unchecked read yields: not a value any Option equals
Undefined == << 0, 0 >>

get(s, id) ==
    LET x == storage_get_index(s.sparse, id)
    IN  IF is_none(x) THEN None
        ELSE LET index == unwrap(x) - 1
             IN  IF index < Len(s.data) THEN Some(s.data[index + 1]) ELSE Undefined

\* mutant: the two vectors are emptied but the storage keeps its entries
clear_keep_sparse(s) == Out(SparseSet(s.sparse, << >>, << >>), None, "ok")

clear(s) == Out(SparseSet(storage_clear(s.sparse), << >>, << >>), None, "ok")

\* mutant: a present id is appended again instead of being replaced in place
insert_always_push(s, id, dat) ==
    Out(SparseSet(storage_set_index(s.sparse, id, Some(Len(s.dense) + 1)),
                  Append(s.dense, id),
                  Append(s.data, dat)),
        get(s, id), "ok")

\* mutant: the new slot index is the 0-based position, NonZeroUsize::new(len)
insert_zero_based(s, id, dat) ==
    LET x == storage_get_index(s.sparse, id)
    IN  IF is_some(x)
        THEN Out([s EXCEPT !.data[unwrap(x)] = dat], Some(s.data[unwrap(x)]), "ok")
        ELSE LET new_index == IF Len(s.dense) = 0 THEN None ELSE Some(Len(s.dense))
             IN  Out(SparseSet(storage_set_index(s.sparse, id, new_index),
                               Append(s.dense, id),
                               Append(s.data, dat)),
                     None, "ok")

\* mutant: std::mem::replace's result is dropped and the new value returned
insert_returns_new(s, id, dat) ==
    LET x == storage_get_index(s.sparse, id)
    IN  IF is_some(x)
        THEN Out([s EXCEPT !.data[unwrap(x)] = dat], Some(dat), "ok")
        ELSE Out(SparseSet(storage_set_index(s.sparse, id, Some(Len(s.dense) + 1)),
                           Append(s.dense, id),
                           Append(s.data, dat)),
                 None, "ok")

\* mutant: a present id's value is replaced at its slot index, without the - 1
insert_present_slot(s, id, dat) ==
    LET x == storage_get_index(s.sparse, id)
    IN  IF is_some(x)
        THEN IF unwrap(x) < Len(s.data)
             THEN Out([s EXCEPT !.data[unwrap(x) + 1] = dat],
                      Some(s.data[unwrap(x) + 1]), "ok")
             ELSE Out(s, None, "ub")
        ELSE Out(SparseSet(storage_set_index(s.sparse, id, Some(Len(s.dense) + 1)),
                           Append(s.dense, id),
                           Append(s.data, dat)),
                 None, "ok")

insert(s, id, dat) ==
    LET x == storage_get_index(s.sparse, id)
    IN  IF is_some(x)
        THEN LET index == unwrap(x) - 1
             IN  IF index < Len(s.data)
                 THEN Out([s EXCEPT !.data[index + 1] = dat],
                          Some(s.data[index + 1]), "ok")
                 ELSE Out(s, None, "ub")
        ELSE LET new_index == Some(Len(s.dense) + 1)
             IN  Out(SparseSet(storage_set_index(s.sparse, id, new_index),
                               Append(s.dense, id),
                               Append(s.data, dat)),
                     None, "ok")

\* mutant: the first slot index is the old length, without the + 1
insert_batch_start_len(s, ids, data) ==
    IF Len(ids) # Len(data)
    THEN OutBatch(s, "panic", ids, data)
    ELSE OutBatch(SparseSet(storage_set_indices(s.sparse, ids, Len(s.data)),
                            s.dense \o ids,
                            s.data \o data),
                  "ok", << >>, << >>)

\* mutant: the lengths are not compared before the vectors are appended
insert_batch_no_length_check(s, ids, data) ==
    OutBatch(SparseSet(storage_set_indices(s.sparse, ids, Len(s.data) + 1),
                       s.dense \o ids,
                       s.data \o data),
             "ok", << >>, << >>)

\* mutant: the batch is a loop of insert(ids[i], data[i]), which looks ids up
RECURSIVE insert_each(_, _, _)
insert_each(s, ids, data) ==
    IF ids = << >> THEN s
    ELSE insert_each(insert(s, Head(ids), Head(data)).s, Tail(ids), Tail(data))

insert_batch_by_insert(s, ids, data) ==
    IF Len(ids) # Len(data)
    THEN OutBatch(s, "panic", ids, data)
    ELSE OutBatch(insert_each(s, ids, data), "ok", << >>, << >>)

\* Vec::append moves every element out of the caller's vector
insert_batch(s, ids, data) ==
    IF Len(ids) # Len(data)
    THEN OutBatch(s, "panic", ids, data)
    ELSE LET start_index == Len(s.data) + 1
         IN  OutBatch(SparseSet(storage_set_indices(s.sparse, ids, start_index),
                                s.dense \o ids,
                                s.data \o data),
                      "ok", << >>, << >>)

\* mutant: the swap exchanges the ids and the slot indices but not the values
swap_by_index_unchecked_no_data(s, index_a, index_b) ==
    IF index_a = index_b
    THEN Out(s, None, "ok")
    ELSE Out(SparseSet(storage_swap(s.sparse, s.dense[index_a + 1], s.dense[index_b + 1]),
                       vec_swap(s.dense, index_a, index_b),
                       s.data),
             None, "ok")

\* mutant: the swap forgets to exchange the two slot indices in the storage
swap_by_index_unchecked_no_sparse(s, index_a, index_b) ==
    IF index_a = index_b
    THEN Out(s, None, "ok")
    ELSE Out(SparseSet(s.sparse,
                       vec_swap(s.dense, index_a, index_b),
                       vec_swap(s.data, index_a, index_b)),
             None, "ok")

swap_by_index_unchecked(s, index_a, index_b) ==
    IF index_a = index_b
    THEN Out(s, None, "ok")
    ELSE IF index_a >= Len(s.dense) \/ index_b >= Len(s.dense)
              \/ index_a >= Len(s.data) \/ index_b >= Len(s.data)
         THEN Out(s, None, "ub")
         ELSE LET id_a == s.dense[index_a + 1]
                  id_b == s.dense[index_b + 1]
              IN  Out(SparseSet(storage_swap(s.sparse, id_a, id_b),
                                vec_swap(s.dense, index_a, index_b),
                                vec_swap(s.data, index_a, index_b)),
                      None, "ok")

\* mutant: only index_a is compared with len()
swap_by_index_check_a_only(s, index_a, index_b) ==
    IF index_a >= len(s) THEN Out(s, None, "panic")
    ELSE swap_by_index_unchecked(s, index_a, index_b)

swap_by_index(s, index_a, index_b) ==
    IF index_a >= len(s) THEN Out(s, None, "panic")
    ELSE IF index_b >= len(s) THEN Out(s, None, "panic")
    ELSE swap_by_index_unchecked(s, index_a, index_b)

\* mutant: the 1-based slot indices are used as dense positions
swap_by_entity_id_slot(s, id_a, id_b) ==
    LET index_a == storage_get_index(s.sparse, id_a)
        index_b == storage_get_index(s.sparse, id_b)
    IN  IF is_none(index_a) \/ is_none(index_b)
        THEN Out(s, None, "ok")
        ELSE swap_by_index_unchecked(s, unwrap(index_a), unwrap(index_b))

\* mutant: the early return needs both ids to be missing (&& for ||), so one
\* missing id reaches unwrap() of a None
swap_by_entity_id_both_missing(s, id_a, id_b) ==
    LET index_a == storage_get_index(s.sparse, id_a)
        index_b == storage_get_index(s.sparse, id_b)
    IN  IF is_none(index_a) /\ is_none(index_b)
        THEN Out(s, None, "ok")
        ELSE IF is_none(index_a) \/ is_none(index_b)
        THEN Out(s, None, "panic")
        ELSE swap_by_index_unchecked(s, unwrap(index_a) - 1, unwrap(index_b) - 1)

swap_by_entity_id(s, id_a, id_b) ==
    LET index_a == storage_get_index(s.sparse, id_a)
        index_b == storage_get_index(s.sparse, id_b)
    IN  IF is_none(index_a) \/ is_none(index_b)
        THEN Out(s, None, "ok")
        ELSE swap_by_index_unchecked(s, unwrap(index_a) - 1, unwrap(index_b) - 1)

\* mutant: the id to forget is read after the swap, so it is the moved one
swap_remove_by_index_stale_id(s, index) ==
    LET o == get_id(s, index)
    IN  IF is_none(o) THEN Out(s, None, "ok")
        ELSE LET sw == swap_by_index(s, index, len(s) - 1)
                 id == sw.s.dense[index + 1]
             IN  Out(SparseSet(storage_set_index(sw.s.sparse, id, None),
                               vec_pop(sw.s.dense),
                               vec_pop(sw.s.data)),
                     vec_last(sw.s.data), "ok")

\* mutant: the element is popped without first being swapped to the end
swap_remove_by_index_no_swap(s, index) ==
    LET o == get_id(s, index)
    IN  IF is_none(o) THEN Out(s, None, "ok")
        ELSE Out(SparseSet(storage_set_index(s.sparse, unwrap(o), None),
                           vec_pop(s.dense),
                           vec_pop(s.data)),
                 vec_last(s.data), "ok")

\* mutant: the element is swapped with position len() instead of len() - 1
swap_remove_by_index_len(s, index) ==
    LET o == get_id(s, index)
    IN  IF is_none(o) THEN Out(s, None, "ok")
        ELSE LET id == unwrap(o)
                 sw == swap_by_index(s, index, len(s))
             IN  IF sw.status # "ok" THEN sw
                 ELSE Out(SparseSet(storage_set_index(sw.s.sparse, id, None),
                                    vec_pop(sw.s.dense),
                                    vec_pop(sw.s.data)),
                          vec_last(sw.s.data), "ok")

\* mutant: no early return on get_id(index) = None, the index goes unchecked
\* to len() - 1 and swap_by_index
swap_remove_by_index_no_guard(s, index) ==
    IF len(s) = 0 THEN Out(s, None, "panic")
    ELSE LET sw == swap_by_index(s, index, len(s) - 1)
         IN  IF sw.status # "ok" THEN sw
             ELSE Out(SparseSet(storage_set_index(sw.s.sparse, s.dense[index + 1], None),
                                vec_pop(sw.s.dense),
                                vec_pop(sw.s.data)),
                      vec_last(sw.s.data), "ok")

\* len() - 1 on an empty set would underflow (a panic in a checked build, and
\* the wrapped index then fails swap_by_index's range check in an unchecked one)
swap_remove_by_index(s, index) ==
    LET o == get_id(s, index)
    IN  IF is_none(o) THEN Out(s, None, "ok")
        ELSE IF len(s) = 0 THEN Out(s, None, "panic")
        ELSE LET id == unwrap(o)
                 sw == swap_by_index(s, index, len(s) - 1)
             IN  IF sw.status # "ok" THEN sw
                 ELSE Out(SparseSet(storage_set_index(sw.s.sparse, id, None),
                                    vec_pop(sw.s.dense),
                                    vec_pop(sw.s.data)),
                          vec_last(sw.s.data), "ok")

\* mutant: a missing id falls back to position 0, get_index(id).unwrap_or(0)
swap_remove_by_id_default_index(s, id) ==
    LET index == get_index(s, id)
    IN  swap_remove_by_index(s, IF is_none(index) THEN 0 ELSE unwrap(index))

\* mutant: the slot index is handed on as the position, without the - 1
swap_remove_by_id_slot(s, id) ==
    LET x == storage_get_index(s.sparse, id)
    IN  IF is_none(x) THEN Out(s, None, "ok")
        ELSE swap_remove_by_index(s, unwrap(x))

swap_remove_by_id(s, id) ==
    LET index == get_index(s, id)
    IN  IF is_none(index) THEN Out(s, None, "ok")
        ELSE swap_remove_by_index(s, unwrap(index))

\* mutant: the 1-based slot index is used as the position of the reference
get_mut_write_slot(s, id, dat) ==
    LET x == storage_get_index(s.sparse, id)
    IN  IF is_none(x) THEN Out(s, None, "ok")
        ELSE IF unwrap(x) >= Len(s.data) THEN Out(s, None, "ub")
        ELSE Out([s EXCEPT !.data[unwrap(x) + 1] = dat], None, "ok")

\* get_mut(id) followed by a write of `dat` through the returned reference
get_mut_write(s, id, dat) ==
    LET index == get_index(s, id)
    IN  IF is_none(index) THEN Out(s, None, "ok")
        ELSE IF unwrap(index) >= Len(s.data) THEN Out(s, None, "ub")
        ELSE Out([s EXCEPT !.data[unwrap(index) + 1] = dat], None, "ok")

\* data_mut()[index] = dat; indexing a slice out of range panics
data_mut_write(s, index, dat) ==
    IF index >= Len(s.data) THEN Out(s, None, "panic")
    ELSE Out([s EXCEPT !.data[index + 1] = dat], None, "ok")

\* ----------------------------------------------------------- state machine
\* sparse, dense, data: the fields of the set; op, ret, status: the call just
\* made, what it returned and how it ended; prev: the set before that call;
\* caller: the two vectors handed to insert_batch, as the call left them.
\* Kept beside the set by the caller, for comparison:
\*   ref, rret: a plain map from id to value taking the same calls, and what
\*              the map returned for the last call;
\*   order:     Some(ids in the order of their first insertion) while only
\*              insert and insert_batch were called since the set was empty,
\*              None after any other call;
\*   trace:     the calls made so far, when the caller records them.
VARIABLES sparse, dense, data, prev, op, ret, status, caller, ref, rret, order, trace

vars == <<sparse, dense, data, prev, op, ret, status, caller, ref, rret, order, trace>>

\* the set the program holds
cur == SparseSet(sparse, dense, data)

\* the call just made: its name and arguments (-1 / << >> for unused ones)
Call(name, a, b, val, ids, vals) ==
    [name |-> name, a |-> a, b |-> b, val |-> val, ids |-> ids, vals |-> vals]

Range(q) == { q[i] : i \in 1..Len(q) }

\* ---- the reference map: a map from id to value with insert and remove
map_empty == [id \in IdSpace |-> None]

map_insert(m, id, dat) == [map |-> [m EXCEPT ![id] = Some(dat)], ret |-> m[id]]

map_remove(m, id) == [map |-> [m EXCEPT ![id] = None], ret |-> m[id]]

RECURSIVE map_insert_all(_, _, _)
map_insert_all(m, ids, vals) ==
    IF ids = << >> \/ vals = << >> THEN m
    ELSE map_insert_all(map_insert(m, Head(ids), Head(vals)).map, Tail(ids), Tail(vals))

\* the call made on the map for a call made on the set s; a by-index call is
\* made on the key that get_id gives for the index
RefStep(m, call, s) ==
    LET key == get_id(s, call.a)
        same == [map |-> m, ret |-> None]
    IN  CASE call.name = "insert" -> map_insert(m, call.a, call.val)
          [] call.name = "insert_batch" ->
               [map |-> map_insert_all(m, call.ids, call.vals), ret |-> None]
          [] call.name = "swap_remove_by_id" -> map_remove(m, call.a)
          [] call.name = "swap_remove_by_index" ->
               IF is_some(key) THEN map_remove(m, unwrap(key)) ELSE same
          [] call.name = "clear" -> [map |-> map_empty, ret |-> None]
          [] call.name = "get_mut" ->
               IF is_some(m[call.a])
               THEN [map |-> map_insert(m, call.a, call.val).map, ret |-> None]
               ELSE same
          [] call.name = "data_mut" ->
               IF is_some(key)
               THEN [map |-> map_insert(m, unwrap(key), call.val).map, ret |-> None]
               ELSE same
          [] OTHER -> same

\* ---- the order of first insertion
RECURSIVE first_insertions(_, _)
first_insertions(q, ids) ==
    IF ids = << >> THEN q
    ELSE first_insertions(IF Head(ids) \in Range(q) THEN q ELSE Append(q, Head(ids)),
                          Tail(ids))

OrderStep(o, call) ==
    CASE call.name = "clear" -> Some(<< >>)
      [] call.name = "insert" ->
           IF is_none(o) THEN None ELSE Some(first_insertions(unwrap(o), << call.a >>))
      [] call.name = "insert_batch" ->
           IF is_none(o) THEN None ELSE Some(first_insertions(unwrap(o), call.ids))
      [] OTHER -> None

\* one call: the set takes the outcome, the caller's records follow the call
\* (they are left alone by a call that did not return)
Step(call, out) ==
    /\ sparse' = out.s.sparse
    /\ dense' = out.s.dense
    /\ data' = out.s.data
    /\ prev' = cur
    /\ op' = call
    /\ ret' = out.ret
    /\ status' = out.status
    /\ caller' = IF call.name = "insert_batch" THEN << out.ids, out.data >>
                 ELSE << << >>, << >> >>
    /\ ref' = IF out.status = "ok" THEN RefStep(ref, call, cur).map ELSE ref
    /\ rret' = IF out.status = "ok" THEN RefStep(ref, call, cur).ret ELSE None
    /\ order' = IF out.status = "ok" THEN OrderStep(order, call) ELSE order

Apply(call, out) ==
    /\ Step(call, out)
    /\ UNCHANGED trace

Init ==
    /\ sparse = default.sparse
    /\ dense = default.dense
    /\ data = default.data
    /\ prev = default
    /\ op = Call("new", -1, -1, -1, << >>, << >>)
    /\ ret = None
    /\ status = "ok"
    /\ caller = << << >>, << >> >>
    /\ ref = map_empty
    /\ rret = None
    /\ order = Some(<< >>)
    /\ trace = << >>

\* sequences over S of length at most n
RECURSIVE SeqsUpTo(_, _)
SeqsUpTo(S, n) ==
    IF n = 0 THEN { << >> }
    ELSE LET shorter == SeqsUpTo(S, n - 1)
         IN  shorter \cup { Append(q, x) : q \in { r \in shorter : Len(r) = n - 1 }, x \in S }

Distinct(q) == \A i, j \in 1..Len(q) : q[i] = q[j] => i = j

\* the documented precondition of insert_batch
BatchPre(s, ids, vals) ==
    /\ Len(ids) = Len(vals)
    /\ Distinct(ids)
    /\ \A i \in 1..Len(ids) : ~contains(s, ids[i])

Clear ==
    /\ status = "ok"
    /\ Apply(Call("clear", -1, -1, -1, << >>, << >>), clear(cur))

Insert ==
    /\ status = "ok"
    /\ \E id \in Ids, dat \in Values :
         Apply(Call("insert", id, -1, dat, << >>, << >>), insert(cur, id, dat))

InsertBatch ==
    /\ status = "ok"
    /\ \E ids \in SeqsUpTo(Ids, MaxBatch), vals \in SeqsUpTo(Values, MaxBatch) :
         /\ BatchPre(cur, ids, vals)
         /\ Apply(Call("insert_batch", -1, -1, -1, ids, vals),
                  insert_batch(cur, ids, vals))

SwapRemoveById ==
    /\ status = "ok"
    /\ \E id \in Ids :
         Apply(Call("swap_remove_by_id", id, -1, -1, << >>, << >>),
               swap_remove_by_id(cur, id))

SwapRemoveByIndex ==
    /\ status = "ok"
    /\ \E index \in 0..MaxIndex :
         Apply(Call("swap_remove_by_index", index, -1, -1, << >>, << >>),
               swap_remove_by_index(cur, index))

SwapByEntityId ==
    /\ status = "ok"
    /\ \E id_a \in Ids, id_b \in Ids :
         Apply(Call("swap_by_entity_id", id_a, id_b, -1, << >>, << >>),
               swap_by_entity_id(cur, id_a, id_b))

SwapByIndex ==
    /\ status = "ok"
    /\ \E index_a \in 0..MaxIndex, index_b \in 0..MaxIndex :
         /\ index_a < len(cur)
         /\ index_b < len(cur)
         /\ Apply(Call("swap_by_index", index_a, index_b, -1, << >>, << >>),
                  swap_by_index(cur, index_a, index_b))

GetMutWrite ==
    /\ status = "ok"
    /\ \E id \in Ids, dat \in Values :
         Apply(Call("get_mut", id, -1, dat, << >>, << >>), get_mut_write(cur, id, dat))

DataMutWrite ==
    /\ status = "ok"
    /\ \E index \in 0..MaxIndex, dat \in Values :
         /\ index < len(cur)
         /\ Apply(Call("data_mut", index, -1, dat, << >>, << >>),
                  data_mut_write(cur, index, dat))

Next ==
    \/ Clear
    \/ Insert
    \/ InsertBatch
    \/ SwapRemoveById
    \/ SwapRemoveByIndex
    \/ SwapByEntityId
    \/ SwapByIndex
    \/ GetMutWrite
    \/ DataMutWrite

Spec == Init /\ [][Next]_vars

\* ---- the scenario of the specification, section 8: its calls, in its order
Scenario ==
    << Call("insert", 1, -1, "a", << >>, << >>),
       Call("insert", 2, -1, "b", << >>, << >>),
       Call("insert", 3, -1, "c", << >>, << >>),
       Call("swap_remove_by_id", 2, -1, "", << >>, << >>),
       Call("insert", 2, -1, "z", << >>, << >>),
       Call("insert_batch", -1, -1, "", << 4, 5 >>, << "d", "e" >>) >>

\* how many calls the caller records
MaxTrace == 6

Record(call, out) ==
    /\ status = "ok"
    /\ Len(trace) < MaxTrace
    /\ Step(call, out)
    /\ trace' = Append(trace, call)

\* the caller makes the calls of the scenario, in any order and any number
\* of times, and records them
ScenarioInsert ==
    \E call \in { c \in Range(Scenario) : c.name = "insert" } :
      Record(call, insert(cur, call.a, call.val))

ScenarioSwapRemoveById ==
    \E call \in { c \in Range(Scenario) : c.name = "swap_remove_by_id" } :
      Record(call, swap_remove_by_id(cur, call.a))

ScenarioInsertBatch ==
    \E call \in { c \in Range(Scenario) : c.name = "insert_batch" } :
      /\ BatchPre(cur, call.ids, call.vals)
      /\ Record(call, insert_batch(cur, call.ids, call.vals))

ScenarioNext ==
    \/ ScenarioInsert
    \/ ScenarioSwapRemoveById
    \/ ScenarioInsertBatch

SpecScenario == Init /\ [][ScenarioNext]_vars

\* ---- misuse that does not panic: a batch against the documented precondition
\* the longest the two vectors are let to grow once ids may repeat
MaxLen == NumIds + 1

InsertBatchUnchecked ==
    /\ status = "ok"
    /\ \E ids \in SeqsUpTo(Ids, MaxBatch), vals \in SeqsUpTo(Values, MaxBatch) :
         /\ Len(ids) = Len(vals)
         /\ ~BatchPre(cur, ids, vals)
         /\ len(cur) + Len(ids) <= MaxLen
         /\ Apply(Call("insert_batch", -1, -1, -1, ids, vals),
                  insert_batch(cur, ids, vals))

\* the storage and the dense vector of s are inverse to each other
Bijective(s) ==
    /\ Len(s.dense) = Len(s.data)
    /\ \A j \in 1..Len(s.dense) : s.sparse[s.dense[j]] = j
    /\ \A id \in IdSpace : s.sparse[id] # 0 => s.sparse[id] <= Len(s.dense)

\* the caller builds any set by documented calls and then makes batch calls
\* against the precondition; what other calls do to a set so broken is left
\* undefined by the documentation and is not followed
DupNext ==
    \/ InsertBatchUnchecked
    \/ Bijective(cur) /\ Next

SpecDup == Init /\ [][DupNext]_vars

\* ---- misuse that panics: an index out of range, vectors of two lengths
SwapByIndexOutOfRange ==
    /\ status = "ok"
    /\ \E index_a \in 0..MaxIndex, index_b \in 0..MaxIndex :
         /\ index_a >= len(cur) \/ index_b >= len(cur)
         /\ Apply(Call("swap_by_index", index_a, index_b, -1, << >>, << >>),
                  swap_by_index(cur, index_a, index_b))

InsertBatchMismatched ==
    /\ status = "ok"
    /\ \E ids \in SeqsUpTo(Ids, MaxBatch), vals \in SeqsUpTo(Values, MaxBatch) :
         /\ Len(ids) # Len(vals)
         /\ Apply(Call("insert_batch", -1, -1, -1, ids, vals),
                  insert_batch(cur, ids, vals))

MisuseNext ==
    \/ Next
    \/ SwapByIndexOutOfRange
    \/ InsertBatchMismatched

SpecMisuse == Init /\ [][MisuseNext]_vars

TypeOK ==
    /\ sparse \in [IdSpace -> 0..NumIds]
    /\ dense \in SeqsUpTo(Ids, NumIds)
    /\ data \in SeqsUpTo(Values, NumIds)
    /\ status = "ok"

\* ------------------------------------------------------------------ claims

\* C1 (bijection invariant): in every reachable state, (1) every id with
\* contains(id) has get_index(id) = k with k < len(), get_id(k) = id and
\* get(id) = data()[k]; (2) every dense position j < len() satisfies
\* get_index(get_id(j)) = j; (3) ids() and data() have the same length, which
\* is the number of ids for which contains is true.
C1_Bijection ==
    /\ status = "ok"
    /\ \A id \in Ids :
         contains(cur, id) =>
           LET k == unwrap(get_index(cur, id))
           IN  /\ is_some(get_index(cur, id))
               /\ k < len(cur)
               /\ get_id(cur, k) = Some(id)
               /\ k < Len(data)
               /\ get(cur, id) = Some(data[k + 1])
    /\ \A j \in 0..(len(cur) - 1) :
         get_index(cur, unwrap(get_id(cur, j))) = Some(j)
    /\ Len(dense) = Len(data)
    /\ Len(dense) = Cardinality({ id \in Ids : contains(cur, id) })

\* a swap-remove has just moved the last of three elements into the hole
C1_Witness ==
    /\ op.name = "swap_remove_by_index"
    /\ is_some(ret)
    /\ op.a = 0
    /\ len(prev) = 3
    /\ len(cur) = 2

\* ids whose entry the call just made addresses: the id it removes, inserts
\* again or writes through a reference, every id when it clears
Addressed(id) ==
    \/ op.name = "clear"
    \/ op.name \in {"insert", "swap_remove_by_id", "get_mut"} /\ op.a = id
    \/ op.name = "insert_batch" /\ id \in Range(op.ids)
    \/ op.name \in {"swap_remove_by_index", "data_mut"} /\ get_index(prev, id) = Some(op.a)

\* C2 (round trip): right after insert(id, value), contains(id) holds and
\* get(id) = value; and a call that does not remove id, insert it again, write
\* through a reference to it or clear the set (so any insert, batch insert,
\* swap-remove of other ids, and any swap, also one involving id) leaves
\* get(id) as it was.
C2_RoundTrip ==
    /\ op.name = "insert" =>
         /\ status = "ok"
         /\ contains(cur, op.a)
         /\ get(cur, op.a) = Some(op.val)
    /\ \A id \in Ids :
         (contains(prev, id) /\ ~Addressed(id)) =>
           /\ contains(cur, id)
           /\ get(cur, id) = get(prev, id)

\* an id kept its value through a swap that moved it
C2_Witness ==
    /\ op.name = "swap_by_entity_id"
    /\ contains(prev, op.a)
    /\ get_index(cur, op.a) # get_index(prev, op.a)
    /\ get(cur, op.a) = get(prev, op.a)
    /\ len(cur) = 3

\* the position a swap-remove call addresses, if any
RemovedPos ==
    IF op.name = "swap_remove_by_index" THEN Some(op.a)
    ELSE IF op.name = "swap_remove_by_id" THEN get_index(prev, op.a)
    ELSE None

\* C3 (swap-remove reordering): for a set of length n and a position
\* i < n-1, swap_remove_by_index(i), or swap_remove_by_id of the id at i,
\* returns the value that was at i, puts the id formerly at n-1 at position i
\* with its value, makes len() n-1 and the removed id absent, and leaves the
\* position and value of every other id unchanged.
C3_SwapRemove ==
    (is_some(RemovedPos) /\ unwrap(RemovedPos) < len(prev) - 1) =>
      LET i == unwrap(RemovedPos)
          n == len(prev)
          removed == prev.dense[i + 1]
          last == prev.dense[n]
      IN  /\ status = "ok"
          /\ ret = Some(prev.data[i + 1])
          /\ get_index(cur, last) = Some(i)
          /\ get_id(cur, i) = Some(last)
          /\ get(cur, last) = Some(prev.data[n])
          /\ len(cur) = n - 1
          /\ Len(data) = n - 1
          /\ ~contains(cur, removed)
          /\ get(cur, removed) = None
          /\ \A id \in Ids \ {removed, last} :
               /\ get_index(cur, id) = get_index(prev, id)
               /\ get(cur, id) = get(prev, id)
          /\ \A j \in 0..(n - 2) :
               j # i => /\ dense[j + 1] = prev.dense[j + 1]
                        /\ data[j + 1] = prev.data[j + 1]

\* the first of three elements was removed by id, a third id stayed in place
C3_Witness ==
    /\ op.name = "swap_remove_by_id"
    /\ get_index(prev, op.a) = Some(0)
    /\ len(prev) = 3
    /\ is_some(ret)

\* C4 (insert on a present id): if contains(id), insert(id, v) returns
\* Some(previous value of id), leaves get_index(id), len() and ids()
\* unchanged, and changes no value other than the one stored for id.
C4_InsertPresent ==
    (op.name = "insert" /\ contains(prev, op.a)) =>
      LET k == unwrap(get_index(prev, op.a))
      IN  /\ status = "ok"
          /\ is_some(ret)
          /\ ret = get(prev, op.a)
          /\ get_index(cur, op.a) = get_index(prev, op.a)
          /\ len(cur) = len(prev)
          /\ dense = prev.dense
          /\ sparse = prev.sparse
          /\ Len(data) = Len(prev.data)
          /\ \A j \in 0..(Len(data) - 1) : j # k => data[j + 1] = prev.data[j + 1]
          /\ data[k + 1] = op.val
          /\ \A id \in Ids \ {op.a} : get(cur, id) = get(prev, id)

\* a present id, not the last of two, was given a different value
C4_Witness ==
    /\ op.name = "insert"
    /\ get_index(prev, op.a) = Some(0)
    /\ len(prev) = 2
    /\ ret # Some(op.val)
    /\ is_some(ret)

\* C5 (insert on an absent id): if ~contains(id) and len() = n, insert(id, v)
\* returns None, appends id to ids() and v to data() at position n (so
\* get_index(id) = n and the slot index in the storage is n+1), makes len()
\* n+1, and leaves the position and value of every other id unchanged.
C5_InsertAbsent ==
    (op.name = "insert" /\ ~contains(prev, op.a)) =>
      LET n == len(prev)
      IN  /\ status = "ok"
          /\ ret = None
          /\ dense = Append(prev.dense, op.a)
          /\ data = Append(prev.data, op.val)
          /\ get_index(cur, op.a) = Some(n)
          /\ storage_get_index(sparse, op.a) = Some(n + 1)
          /\ get(cur, op.a) = Some(op.val)
          /\ len(cur) = n + 1
          /\ \A id \in Ids \ {op.a} :
               /\ get_index(cur, id) = get_index(prev, id)
               /\ get(cur, id) = get(prev, id)

\* an absent id was inserted into a set that held two others
C5_Witness ==
    /\ op.name = "insert"
    /\ ~contains(prev, op.a)
    /\ len(prev) = 2
    /\ ret = None
    /\ get_index(cur, op.a) = Some(2)

\* insert(ids[0], vals[0]), insert(ids[1], vals[1]), ... in order
RECURSIVE InsertAll(_, _, _)
InsertAll(s, ids, vals) ==
    IF ids = << >> THEN s
    ELSE InsertAll(insert(s, Head(ids), Head(vals)).s, Tail(ids), Tail(vals))

\* C6 (batch insert under its precondition): with equal lengths and ids
\* pairwise distinct and not present, insert_batch(ids, values) on a set of
\* length n puts ids[i] with values[i] at position n+i, leaves the n existing
\* elements unchanged, and ends in the state that insert(ids[i], values[i])
\* for i = 0, 1, ... in order ends in.
C6_InsertBatch ==
    (op.name = "insert_batch" /\ BatchPre(prev, op.ids, op.vals)) =>
      LET n == len(prev)
      IN  /\ status = "ok"
          /\ len(cur) = n + Len(op.ids)
          /\ Len(data) = n + Len(op.ids)
          /\ \A i \in 1..Len(op.ids) :
               /\ get_id(cur, n + i - 1) = Some(op.ids[i])
               /\ data[n + i] = op.vals[i]
               /\ get_index(cur, op.ids[i]) = Some(n + i - 1)
               /\ get(cur, op.ids[i]) = Some(op.vals[i])
          /\ SubSeq(dense, 1, n) = prev.dense
          /\ SubSeq(data, 1, n) = prev.data
          /\ \A id \in Ids :
               contains(prev, id) =>
                 /\ get_index(cur, id) = get_index(prev, id)
                 /\ get(cur, id) = get(prev, id)
          /\ cur = InsertAll(prev, op.ids, op.vals)

\* two ids were inserted in one batch into a set that held one
C6_Witness ==
    /\ op.name = "insert_batch"
    /\ Len(op.ids) = 2
    /\ len(prev) = 1
    /\ len(cur) = 3

\* C7 (reported absence): swap_remove_by_id of an absent id and
\* swap_remove_by_index of an index >= len() return None without a panic and
\* leave ids(), data() and the storage as they were; get, get_mut and
\* get_index of an absent id and get_id of an index >= len() are None; and
\* removing the id just removed once more returns None and changes nothing.
C7_ReportedAbsence ==
    /\ (op.name = "swap_remove_by_id" /\ ~contains(prev, op.a)) =>
         (ret = None /\ status = "ok" /\ cur = prev)
    /\ (op.name = "swap_remove_by_index" /\ op.a >= len(prev)) =>
         (ret = None /\ status = "ok" /\ cur = prev)
    /\ (op.name = "get_mut" /\ ~contains(prev, op.a)) =>
         (ret = None /\ status = "ok" /\ cur = prev)
    /\ \A id \in Ids :
         ~contains(cur, id) =>
           /\ get(cur, id) = None
           /\ get_index(cur, id) = None
           /\ swap_remove_by_id(cur, id) = Out(cur, None, "ok")
    /\ \A index \in len(cur)..MaxIndex :
         /\ get_id(cur, index) = None
         /\ swap_remove_by_index(cur, index) = Out(cur, None, "ok")
    /\ (op.name = "swap_remove_by_id" /\ is_some(ret)) =>
         swap_remove_by_id(cur, op.a) = Out(cur, None, "ok")

\* an absent id was removed from a set holding two others
C7_Witness ==
    /\ op.name = "swap_remove_by_id"
    /\ ~contains(prev, op.a)
    /\ len(prev) = 2
    /\ ret = None

\* C8 (absence on empty): on a fresh set and after clear() from any state,
\* len() = 0, is_empty(), data() and ids() are empty, every id is absent with
\* get(id) = None and swap_remove_by_id(id) = None, and no storage entry
\* survives: inserting any id then returns None and puts it at position 0.
C8_AbsenceOnEmpty ==
    op.name \in {"new", "clear"} =>
      /\ status = "ok"
      /\ len(cur) = 0
      /\ is_empty(cur)
      /\ data = << >>
      /\ dense = << >>
      /\ \A id \in Ids :
           /\ ~contains(cur, id)
           /\ get(cur, id) = None
           /\ get_index(cur, id) = None
           /\ swap_remove_by_id(cur, id) = Out(cur, None, "ok")
           /\ \A dat \in Values :
                LET o == insert(cur, id, dat)
                IN  /\ o.ret = None
                    /\ o.status = "ok"
                    /\ get_index(o.s, id) = Some(0)
                    /\ o.s.dense = << id >>
                    /\ o.s.data = << dat >>

\* a set holding every id was cleared
C8_Witness ==
    /\ op.name = "clear"
    /\ len(prev) = NumIds
    /\ len(cur) = 0

\* C9 (per-id state machine): an id becomes present only by an insert or
\* insert_batch naming it; a present id becomes absent only by
\* swap_remove_by_id of it, swap_remove_by_index of its position, or clear;
\* its value changes only by an insert of it or a write through get_mut /
\* data_mut at it; its position changes only by a swap involving it or by a
\* swap-remove while it is the last element.
C9_StateMachine ==
    \A id \in Ids :
      /\ (~contains(prev, id) /\ contains(cur, id)) =>
           \/ op.name = "insert" /\ op.a = id
           \/ op.name = "insert_batch" /\ id \in Range(op.ids)
      /\ (contains(prev, id) /\ ~contains(cur, id)) =>
           \/ op.name = "swap_remove_by_id" /\ op.a = id
           \/ op.name = "swap_remove_by_index" /\ get_index(prev, id) = Some(op.a)
           \/ op.name = "clear"
      /\ (contains(prev, id) /\ contains(cur, id) /\ get(cur, id) # get(prev, id)) =>
           \/ op.name \in {"insert", "get_mut"} /\ op.a = id
           \/ op.name = "data_mut" /\ get_index(prev, id) = Some(op.a)
      /\ (contains(prev, id) /\ contains(cur, id)
            /\ get_index(cur, id) # get_index(prev, id)) =>
           \/ op.name = "swap_by_entity_id" /\ id \in {op.a, op.b}
           \/ op.name = "swap_by_index"
                /\ get_index(prev, id) \in {Some(op.a), Some(op.b)}
           \/ op.name \in {"swap_remove_by_id", "swap_remove_by_index"}
                /\ get_index(prev, id) = Some(len(prev) - 1)

\* a swap-remove made one id absent and moved the last one, a third stayed
C9_Witness ==
    /\ op.name = "swap_remove_by_index"
    /\ len(prev) = 3
    /\ \E id \in Ids : contains(prev, id) /\ ~contains(cur, id)
    /\ \E id \in Ids : /\ contains(prev, id) /\ contains(cur, id)
                       /\ get_index(cur, id) # get_index(prev, id)
    /\ \E id \in Ids : /\ contains(prev, id) /\ contains(cur, id)
                       /\ get_index(cur, id) = get_index(prev, id)

\* the two positions a swap call exchanges, when it exchanges any
SwapPos ==
    IF op.name = "swap_by_entity_id" /\ contains(prev, op.a) /\ contains(prev, op.b)
         /\ op.a # op.b
    THEN Some(<< unwrap(get_index(prev, op.a)), unwrap(get_index(prev, op.b)) >>)
    ELSE IF op.name = "swap_by_index" /\ op.a < len(prev) /\ op.b < len(prev)
    THEN Some(<< op.a, op.b >>)
    ELSE None

\* C10 (swap of two present ids): swap_by_entity_id(id_a, id_b) with both
\* present and different exchanges their positions in ids(), data() and
\* get_index, leaves get(id) of every id and len() unchanged, and leaves every
\* other id in place; swap_by_index(a, b) with a, b < len() does the same to
\* the ids at a and b.
C10_Swap ==
    is_some(SwapPos) =>
      LET pa == unwrap(SwapPos)[1]
          pb == unwrap(SwapPos)[2]
          id_a == prev.dense[pa + 1]
          id_b == prev.dense[pb + 1]
      IN  /\ status = "ok"
          /\ op.name = "swap_by_entity_id" => (id_a = op.a /\ id_b = op.b)
          /\ get_index(cur, id_a) = Some(pb)
          /\ get_index(cur, id_b) = Some(pa)
          /\ len(cur) = len(prev)
          /\ Len(data) = Len(prev.data)
          /\ dense[pa + 1] = id_b
          /\ dense[pb + 1] = id_a
          /\ data[pa + 1] = prev.data[pb + 1]
          /\ data[pb + 1] = prev.data[pa + 1]
          /\ \A j \in 0..(len(prev) - 1) :
               j \notin {pa, pb} => /\ dense[j + 1] = prev.dense[j + 1]
                                    /\ data[j + 1] = prev.data[j + 1]
          /\ \A id \in Ids :
               /\ get(cur, id) = get(prev, id)
               /\ id \notin {id_a, id_b} => get_index(cur, id) = get_index(prev, id)

\* two of three present ids were swapped by id, their values differing
C10_Witness ==
    /\ op.name = "swap_by_entity_id"
    /\ op.a # op.b
    /\ contains(prev, op.a)
    /\ contains(prev, op.b)
    /\ len(prev) = 3
    /\ get(prev, op.a) # get(prev, op.b)

\* C11 (swap that cannot swap): swap_by_entity_id(id_a, id_b) with id_a or
\* id_b absent, or with id_a = id_b, does not panic and leaves ids(), data()
\* and the storage unchanged; so does swap_by_index(a, a) with a < len().
C11_SwapNoOp ==
    /\ (op.name = "swap_by_entity_id"
          /\ (~contains(prev, op.a) \/ ~contains(prev, op.b) \/ op.a = op.b)) =>
         (status = "ok" /\ cur = prev)
    /\ (op.name = "swap_by_index" /\ op.a = op.b /\ op.a < len(prev)) =>
         (status = "ok" /\ cur = prev)

\* a present and an absent id were given to swap_by_entity_id
C11_Witness ==
    /\ op.name = "swap_by_entity_id"
    /\ contains(prev, op.a)
    /\ ~contains(prev, op.b)
    /\ len(prev) = 2
    /\ cur = prev

\* C14 (in-place value mutation): a write through get_mut(id) for a present
\* id, or through data_mut()[j] for j < len(), changes only the value at that
\* one position; len(), ids(), get_index of every id and get of every other
\* id are unchanged, and the bijection still holds.
C14_InPlaceWrite ==
    LET pos == IF op.name = "get_mut" THEN get_index(prev, op.a)
               ELSE IF op.name = "data_mut" /\ op.a < len(prev) THEN Some(op.a)
               ELSE None
    IN  is_some(pos) =>
          LET k == unwrap(pos)
              id == prev.dense[k + 1]
          IN  /\ status = "ok"
              /\ op.name = "get_mut" => id = op.a
              /\ len(cur) = len(prev)
              /\ dense = prev.dense
              /\ sparse = prev.sparse
              /\ Len(data) = Len(prev.data)
              /\ data[k + 1] = op.val
              /\ get(cur, id) = Some(op.val)
              /\ \A j \in 0..(Len(data) - 1) : j # k => data[j + 1] = prev.data[j + 1]
              /\ \A other \in Ids :
                   /\ get_index(cur, other) = get_index(prev, other)
                   /\ other # id => get(cur, other) = get(prev, other)
              /\ C1_Bijection

\* the value of the first of three ids was changed through get_mut
C14_Witness ==
    /\ op.name = "get_mut"
    /\ get_index(prev, op.a) = Some(0)
    /\ len(prev) = 3
    /\ get(prev, op.a) # Some(op.val)
    /\ get(cur, op.a) = Some(op.val)

\* C17 (removing the last element): for a set of length n >= 1,
\* swap_remove_by_index(n-1), or swap_remove_by_id of the id at n-1, returns
\* the value at n-1, makes that id absent and leaves ids()[0..n-1],
\* data()[0..n-1] and the slot index of every remaining id as they were
\* (nothing is swapped); for n = 1 the set is empty afterwards.
C17_RemoveLast ==
    (is_some(RemovedPos) /\ unwrap(RemovedPos) = len(prev) - 1) =>
      LET n == len(prev)
          removed == prev.dense[n]
      IN  /\ status = "ok"
          /\ ret = Some(prev.data[n])
          /\ ~contains(cur, removed)
          /\ dense = SubSeq(prev.dense, 1, n - 1)
          /\ data = SubSeq(prev.data, 1, n - 1)
          /\ \A id \in Ids \ {removed} :
               /\ get_index(cur, id) = get_index(prev, id)
               /\ get(cur, id) = get(prev, id)
          /\ n = 1 => (is_empty(cur) /\ cur = default)

\* the last of three elements was removed by index
C17_Witness ==
    /\ op.name = "swap_remove_by_index"
    /\ len(prev) = 3
    /\ op.a = 2
    /\ is_some(ret)
    /\ len(cur) = 2

\* C20 (no underflow, no internal panic in swap-remove): a swap-remove call
\* ends without a panic; when get_id finds no id at the index (any index >=
\* len(), every index of an empty set) it returns None with the set
\* unchanged, and otherwise len() >= 1 and the two indices handed to
\* swap_by_index, the index and len() - 1, are both below len().
C20_SwapRemoveNoPanic ==
    /\ op.name \in {"swap_remove_by_index", "swap_remove_by_id"} =>
         /\ status = "ok"
         /\ is_none(RemovedPos) => (ret = None /\ cur = prev)
         /\ is_some(RemovedPos) =>
              IF is_none(get_id(prev, unwrap(RemovedPos)))
              THEN ret = None /\ cur = prev
              ELSE /\ len(prev) >= 1
                   /\ unwrap(RemovedPos) < len(prev)
                   /\ swap_by_index(prev, unwrap(RemovedPos), len(prev) - 1).status = "ok"
                   /\ is_some(ret)
    /\ \A index \in 0..MaxIndex : swap_remove_by_index(cur, index).status = "ok"
    /\ \A id \in Ids : swap_remove_by_id(cur, id).status = "ok"

\* swap_remove_by_index(0) was called on an empty set
C20_Witness ==
    /\ op.name = "swap_remove_by_index"
    /\ op.a = 0
    /\ len(prev) = 0
    /\ ret = None
    /\ status = "ok"

\* C12 (checked swap is fatal on misuse and atomic): swap_by_index(a, b)
\* panics exactly when a >= len() or b >= len() (also when only one index is
\* out of range, and on an empty set), the set at the panic is as before the
\* call, and with both indices below len() it does not panic.
C12_SwapByIndexPanic ==
    op.name = "swap_by_index" =>
      /\ status \in {"ok", "panic"}
      /\ status = "panic" <=> (op.a >= len(prev) \/ op.b >= len(prev))
      /\ status = "panic" => cur = prev

\* the second index alone was out of range on a set of two
C12_Witness ==
    /\ op.name = "swap_by_index"
    /\ len(prev) = 2
    /\ op.a = 0
    /\ op.b = 2
    /\ status = "panic"

\* C13 (mismatched batch is fatal and atomic): insert_batch(ids, values)
\* panics exactly when the two lengths differ, and then ids(), data(), the
\* storage and the caller's two vectors are as before the call; with equal
\* lengths, two empty vectors included, it does not panic.
C13_InsertBatchPanic ==
    op.name = "insert_batch" =>
      /\ status \in {"ok", "panic"}
      /\ status = "panic" <=> Len(op.ids) # Len(op.vals)
      /\ status = "panic" => (cur = prev /\ caller = << op.ids, op.vals >>)

\* two ids and one value were handed to a set holding one element
C13_Witness ==
    /\ op.name = "insert_batch"
    /\ Len(op.ids) = 2
    /\ Len(op.vals) = 1
    /\ len(prev) = 1
    /\ status = "panic"

\* C15 (the scenario): from an empty set, insert (1,'a'), (2,'b'), (3,'c')
\* gives ids() = [1,2,3] and data() = ['a','b','c']; swap_remove_by_id(2)
\* then gives ids() = [1,3], data() = ['a','c'] and get_index(3) = 1;
\* insert(2,'z') then returns None and gives ids() = [1,3,2] with
\* get_index(2) = 2; insert_batch([4,5], ['d','e']) then gives
\* get_index(4) = 3, get_index(5) = 4, ids() = [1,3,2,4,5] and
\* data() = ['a','c','z','d','e'].
C15_Scenario ==
    /\ trace = SubSeq(Scenario, 1, 3) =>
         /\ dense = << 1, 2, 3 >>
         /\ data = << "a", "b", "c" >>
    /\ trace = SubSeq(Scenario, 1, 4) =>
         /\ ret = Some("b")
         /\ dense = << 1, 3 >>
         /\ data = << "a", "c" >>
         /\ get_index(cur, 3) = Some(1)
    /\ trace = SubSeq(Scenario, 1, 5) =>
         /\ ret = None
         /\ dense = << 1, 3, 2 >>
         /\ data = << "a", "c", "z" >>
         /\ get_index(cur, 2) = Some(2)
    /\ trace = Scenario =>
         /\ status = "ok"
         /\ get_index(cur, 4) = Some(3)
         /\ get_index(cur, 5) = Some(4)
         /\ dense = << 1, 3, 2, 4, 5 >>
         /\ data = << "a", "c", "z", "d", "e" >>

\* the six calls of the scenario were made in its order
C15_Witness ==
    /\ trace = Scenario
    /\ len(cur) = 5

\* C18 (insertion order until a removal or swap): while only insert and
\* insert_batch (under its precondition) were called since the set was new or
\* cleared, ids() lists the present ids in the order of their first insertion
\* (an insert of a present id not changing it) and data() lists their current
\* values in that order.
C18_InsertionOrder ==
    is_some(order) =>
      /\ dense = unwrap(order)
      /\ Len(data) = Len(dense)
      /\ \A i \in 1..Len(dense) : Some(data[i]) = ref[dense[i]]

\* after three first insertions the first id was given another value
C18_Witness ==
    /\ is_some(order)
    /\ op.name = "insert"
    /\ len(prev) = 3
    /\ get_index(prev, op.a) = Some(0)
    /\ ret # Some(op.val)
    /\ is_some(ret)

\* C19 (map refinement): beside a plain map from id to value taking the same
\* calls, insert returns what the map's insert returns (the previous value or
\* None), swap_remove_by_id what the map's remove returns, and after every
\* call contains(id) and get(id) agree with the map for every id, len() is
\* the map's size and the ids in ids() are the map's keys; a swap changes
\* get(id) for no id.
C19_MapRefinement ==
    /\ status = "ok"
    /\ op.name \in {"insert", "swap_remove_by_id"} => ret = rret
    /\ \A id \in IdSpace :
         /\ contains(cur, id) <=> is_some(ref[id])
         /\ get(cur, id) = ref[id]
    /\ len(cur) = Cardinality({ id \in IdSpace : is_some(ref[id]) })
    /\ Range(dense) = { id \in IdSpace : is_some(ref[id]) }
    /\ op.name \in {"swap_by_entity_id", "swap_by_index"} =>
         \A id \in IdSpace : get(cur, id) = get(prev, id)

\* a present id was inserted again and the map returned its previous value
C19_Witness ==
    /\ op.name = "insert"
    /\ contains(prev, op.a)
    /\ len(prev) = 2
    /\ is_some(rret)
    /\ rret # Some(op.val)
    /\ ret = rret

\* C16 (a batch against the precondition breaks the bijection): after
\* insert_batch with equal lengths and an id that was present, or that occurs
\* twice in the batch, some position j < len() has get_index(get_id(j)) # j
\* and len() exceeds the number of ids for which contains is true; the call
\* returns normally, it neither prevents nor reports this.
C16_BatchBreaksBijection ==
    (op.name = "insert_batch" /\ Len(op.ids) = Len(op.vals)
       /\ ~BatchPre(prev, op.ids, op.vals)) =>
      /\ status = "ok"
      /\ dense = prev.dense \o op.ids
      /\ \E j \in 0..(len(cur) - 1) :
           get_index(cur, unwrap(get_id(cur, j))) # Some(j)
      /\ len(cur) > Cardinality({ id \in IdSpace : contains(cur, id) })

\* a batch named an id that was present in a set still satisfying the bijection
C16_Witness ==
    /\ op.name = "insert_batch"
    /\ Len(op.ids) = 1
    /\ contains(prev, op.ids[1])
    /\ len(prev) = 2
    /\ \A j \in 0..1 : get_index(prev, prev.dense[j + 1]) = Some(j)
    /\ status = "ok"
====
